---- MODULE Spec2Model ----
(***************************************************************************)
(* gpu-pcie-bench (src/main.cpp): host <-> GPU bandwidth benchmark.        *)
(*                                                                         *)
(* Three specifications:                                                   *)
(*   Spec        one run of main(): arguments, device discovery, size      *)
(*               catalog, the per-size buffer life cycle, the round loop,  *)
(*               the report and the teardown;                              *)
(*   SpecParse   parse_sizes() applied to every string over a small        *)
(*               alphabet, one step per comma-separated item;              *)
(*   SpecFilter  filter_static_sizes_by_gpu_memory() applied to arbitrary  *)
(*               prior catalogs and memory totals.                         *)
(*                                                                         *)
(* Numbers.  size_t and cl_ulong values reach 2^32 and more, and the       *)
(* accumulators start at 1e10, all beyond the integers TLC computes with.  *)
(* Such a value v is kept exactly as the pair <<hi, lo>> with              *)
(* v = hi * 2^30 + lo and 0 <= lo < 2^30.  Elapsed times are whole         *)
(* seconds (the clock's resolution is a bound of the model), and the       *)
(* double arithmetic of the accumulators and of convert is exact: sums     *)
(* are sums, quotients are kept as fractions, nothing is rounded.          *)
(***************************************************************************)
EXTENDS Integers, Sequences, FiniteSets, TLC

VARIABLES
    \* ---- the build and the command line (main, lines 218-262)
    bits,               \* width of size_t: 32 or 64 (UINTPTR_MAX, lines 175, 232)
    rounds,             \* int rounds
    targetDevice,       \* int targetDevice
    direction,          \* Direction
    unit,               \* Unit
    userSpecifiedSizes, \* bool
    sizes,              \* std::vector<size_t> sizes
    \* ---- device discovery (lines 267-303)
    numPlatforms, numDevices,
    device,             \* <<index>> once devices[targetDevice] is bound, <<>> before
    gpuMemSize,         \* cl_ulong gpuMemSize
    \* ---- native handles
    context, queue,     \* "none" | "live" | "released"
    live,               \* buffers allocated and not released: <<name, size iteration>>
    mapped,             \* names of the buffers currently mapped into host memory
    \* ---- loops
    pc,                 \* position of main
    exitCode,           \* Running, 0 or 1
    sizeIdx,            \* position of "for (size_t dataSize : sizes)"
    i,                  \* round counter
    accH2D, accD2H,     \* [sum, min, max] of elapsed seconds
    \* ---- observations of the run (history)
    nWrite, nRead,      \* samples taken for the current size
    repH2D, repD2H,     \* <<the lines printed for the current size>>, or NoReport
    nReports,           \* number of direction reports printed for the current size
    xferFailed,         \* a transfer has returned a non-success status
    xferLog,            \* number of transfers enqueued so far
    nAllocs,            \* number of clCreateBuffer calls so far
    \* ---- parse_sizes as a process of its own (SpecParse)
    pstate, ss, result, lastItem, lastOut,
    \* ---- filter_static_sizes_by_gpu_memory on its own (SpecFilter)
    fstate, fprior, fsizes, fmem

mainVars == <<rounds, targetDevice, direction, unit, userSpecifiedSizes, sizes,
              numPlatforms, numDevices, device, gpuMemSize, context, queue, live,
              mapped, pc, exitCode, sizeIdx, i, accH2D, accD2H, nWrite, nRead,
              repH2D, repD2H, nReports, xferFailed, xferLog, nAllocs>>
parseVars == <<pstate, ss, result, lastItem, lastOut>>
filterVars == <<fstate, fprior, fsizes, fmem>>
vars == <<bits, mainVars, parseVars, filterVars>>

-----------------------------------------------------------------------------
(* Bounds of the model *)

\* largest value given to --rounds
MaxRounds == 2
\* largest elapsed time of one transfer, in seconds
MaxElapsed == 1
\* longest --sizes string handed to parse_sizes in SpecParse
MaxStrLen == 4
\* longest prior catalog handed to the filter in SpecFilter
MaxPrior == 2

-----------------------------------------------------------------------------
(* Wide non-negative integers: <<hi, lo>> stands for hi * 2^30 + lo *)

Limb == 1024 * 1024 * 1024
KLimb == 1024 * 1024

W(n) == <<n \div Limb, n % Limb>>
WNorm(hi, lo) == <<hi + lo \div Limb, lo % Limb>>
WLess(a, b) == a[1] < b[1] \/ (a[1] = b[1] /\ a[2] < b[2])
WLeq(a, b) == a = b \/ WLess(a, b)
WMin(a, b) == IF WLess(b, a) THEN b ELSE a
WMax(a, b) == IF WLess(a, b) THEN b ELSE a
WAdd(a, b) == WNorm(a[1] + b[1], a[2] + b[2])
\* a * n for a small n
WScale(a, n) == WNorm(a[1] * n, a[2] * n)
\* a * 1024
WMul1024(a) == <<a[1] * 1024 + a[2] \div KLimb, (a[2] % KLimb) * 1024>>
\* a / 4, rounded down
WDiv4(a) == <<a[1] \div 4, (a[1] % 4) * (Limb \div 4) + a[2] \div 4>>

KiB == W(1024)
MiB == W(1024 * 1024)
GiB == <<1, 0>>

\* static_cast<size_t>: the value modulo 2^bits.  2^32 is 4 limbs; 2^64 is 2^34
\* limbs, which no value of the model reaches.
SizeT(w, b) == IF b = 32 THEN <<w[1] % 4, w[2]>> ELSE w

-----------------------------------------------------------------------------
(* parse_sizes (lines 117-145) *)

DigitChars == {"0", "1", "2", "3", "4", "5", "6", "7", "8", "9"}
DigitVal(c) ==
    CASE c = "0" -> 0 [] c = "1" -> 1 [] c = "2" -> 2 [] c = "3" -> 3 [] c = "4" -> 4
      [] c = "5" -> 5 [] c = "6" -> 6 [] c = "7" -> 7 [] c = "8" -> 8 [] c = "9" -> 9

\* std::getline(ss, item, ','): the characters up to the first ',' and the
\* stream after it.  Called on a stream that is not at its end.
CommaPos(s) ==
    IF \E k \in 1..Len(s) : s[k] = ","
    THEN CHOOSE k \in 1..Len(s) : s[k] = "," /\ \A j \in 1..(k - 1) : s[j] # ","
    ELSE 0
GetlineItem(s) == IF CommaPos(s) = 0 THEN s ELSE SubSeq(s, 1, CommaPos(s) - 1)
GetlineRest(s) == IF CommaPos(s) = 0 THEN <<>> ELSE SubSeq(s, CommaPos(s) + 1, Len(s))

\* the multiplier chosen from the last character, as a power of 1024
SuffixExp(item) ==
    IF item = <<>> THEN 0
    ELSE LET lastChar == item[Len(item)] IN
         CASE lastChar \in {"K", "k"} -> 1
           [] lastChar \in {"M", "m"} -> 2
           [] lastChar \in {"G", "g"} -> 3
           [] OTHER -> 0
NumberPart(item) ==
    IF SuffixExp(item) = 0 THEN item ELSE SubSeq(item, 1, Len(item) - 1)

\* std::stoull(numberPart): converts the longest prefix of decimal digits and
\* ignores whatever follows it; throws std::invalid_argument when there is no
\* digit to convert.
DigitPrefixLen(s) ==
    IF \E k \in 1..Len(s) : s[k] \notin DigitChars
    THEN (CHOOSE k \in 1..Len(s) :
             s[k] \notin DigitChars /\ \A j \in 1..(k - 1) : s[j] \in DigitChars) - 1
    ELSE Len(s)
RECURSIVE Decimal(_)
Decimal(s) == IF s = <<>> THEN 0 ELSE 10 * Decimal(SubSeq(s, 1, Len(s) - 1)) + DigitVal(s[Len(s)])
StoullThrows(s) == DigitPrefixLen(s) = 0
Stoull(s) == Decimal(SubSeq(s, 1, DigitPrefixLen(s)))

RECURSIVE WTimesPow1024(_, _)
WTimesPow1024(a, e) == IF e = 0 THEN a ELSE WTimesPow1024(WMul1024(a), e - 1)

\* one turn of the while loop: what the item appends to result
ParseItem(item, b) ==
    IF StoullThrows(NumberPart(item))
    THEN <<>>                                       \* catch (...): "Invalid size"
    ELSE <<SizeT(WTimesPow1024(W(Stoull(NumberPart(item))), SuffixExp(item)), b)>>

RECURSIVE ParseStream(_, _, _)
ParseStream(s, acc, b) ==
    IF s = <<>> THEN acc
    ELSE ParseStream(GetlineRest(s), acc \o ParseItem(GetlineItem(s), b), b)
parse_sizes(str, b) == ParseStream(str, <<>>, b)

-----------------------------------------------------------------------------
(* filter_static_sizes_by_gpu_memory (lines 166-192) *)

BaseSizes == <<WScale(KiB, 512), MiB, WScale(MiB, 10), WScale(MiB, 100), WScale(MiB, 512)>>
LargeSizes == <<GiB, WScale(GiB, 2), WScale(GiB, 4)>>
staticSizes(b) == IF b = 64 THEN BaseSizes \o LargeSizes ELSE BaseSizes

Range(s) == {s[k] : k \in 1..Len(s)}
\* sizes.erase(std::remove(sizes.begin(), sizes.end(), sz), sizes.end())
RECURSIVE EraseAll(_, _)
EraseAll(s, x) ==
    IF s = <<>> THEN <<>>
    ELSE IF Head(s) = x THEN EraseAll(Tail(s), x)
    ELSE <<Head(s)>> \o EraseAll(Tail(s), x)
\* std::sort(sizes.begin(), sizes.end())
RECURSIVE InsertSorted(_, _)
InsertSorted(s, x) ==
    IF s = <<>> THEN <<x>>
    ELSE IF WLeq(x, Head(s)) THEN <<x>> \o s
    ELSE <<Head(s)>> \o InsertSorted(Tail(s), x)
RECURSIVE SortSizes(_)
SortSizes(s) == IF s = <<>> THEN <<>> ELSE InsertSorted(SortSizes(Tail(s)), Head(s))

\* the body of "for (size_t sz : staticSizes)"
FilterStepNoFind(s, sz, mem) ==
    IF WLess(WDiv4(mem), sz) THEN EraseAll(s, sz) ELSE Append(s, sz)
FilterStep(s, sz, mem) ==
    IF WLess(WDiv4(mem), sz) THEN EraseAll(s, sz)
    ELSE IF sz \notin Range(s) THEN Append(s, sz) ELSE s
RECURSIVE FilterLoop(_, _, _)
FilterLoop(s, todo, mem) ==
    IF todo = <<>> THEN s
    ELSE FilterLoop(FilterStep(s, Head(todo), mem), Tail(todo), mem)
filter_static_sizes_by_gpu_memory(s, mem, b) == SortSizes(FilterLoop(s, staticSizes(b), mem))

-----------------------------------------------------------------------------
(* Values of the run *)

Running == 0 - 1
\* numPlatforms and numDevices before their declarations (lines 268, 278)
NotYet == 0 - 1
DefaultRounds == 100
Directions == {"HostToDevice", "DeviceToHost", "Both"}
Units == {"MBps", "GBps"}
Status == {"CL_SUCCESS", "CL_ERROR"}
BufferNames == {"hostBuf", "recvBuf", "deviceBuffer"}
NoReport == <<>>

\* the catalog main starts with (lines 224-236)
DefaultSizes(b) == IF b = 64 THEN BaseSizes \o LargeSizes ELSE BaseSizes

\* Values given to --rounds, --device and --sizes, device counts and memory
\* totals the runtime reports.  --rounds is always given (the default of 100
\* rounds is beyond MaxRounds) and is not negative: the code accepts a negative
\* count and then runs no round at all, like --rounds 0.
RoundsArgs == 0..MaxRounds
DeviceArgs == {0 - 1, 0, 1}
DeviceCounts == {0, 1}
SizesArgs ==
    { <<"1", "m">>,
      <<"4", "K", ",", "1", "K">>,
      <<"1", "K", ",", "1", "K">>,
      <<"x">>,
      <<"4", "G">> }
MemTotals == {MiB, WScale(MiB, 2), WScale(MiB, 4), WScale(GiB, 2), WScale(GiB, 4),
              WScale(GiB, 16)}
\* the totals met in a whole run: no standard size fits, two fit, and 4 GiB
MainMemTotals == {MiB, WScale(MiB, 4), WScale(GiB, 4)}
ElapsedTimes == {W(t) : t \in 0..MaxElapsed}

WritesActive(dir) == dir = "HostToDevice" \/ dir = "Both"
ReadsActive(dir) == dir = "DeviceToHost" \/ dir = "Both"

\* "targetDevice >= numDevices" (line 287) compares an int with a cl_uint: the int
\* is converted to unsigned, so a negative index becomes index + 2^32, which is
\* beyond every device count.
IndexBeyondSigned(t, n) == t >= n
IndexBeyond(t, n) == IF t < 0 THEN TRUE ELSE t >= n

\* "sizes.empty()" (line 309)
CatalogNeverEmpty(s) == FALSE
CatalogEmpty(s) == s = <<>>

\* "i < rounds" (line 345)
RoundCondInclusive(k, r) == k <= r
RoundCond(k, r) == k < r

\* measure (lines 206-215): CHECK expands to "return 1" inside a function that
\* returns double, so a failed transfer is reported and measure returns 1.0
\* seconds to its caller.
measure(status, elapsed) == IF status # "CL_SUCCESS" THEN W(1) ELSE elapsed

\* the accumulators (lines 342-343 and 350-352, 357-359); 1e10 = 9 * 2^30 + 336323584
MinInit == <<9, 336323584>>
AccInit == [sum |-> W(0), min |-> MinInit, max |-> W(0)]
Accumulate(acc, t) ==
    [sum |-> WAdd(acc.sum, t), min |-> WMin(acc.min, t), max |-> WMax(acc.max, t)]

\* convert (lines 365-368): dataSize / (sec * 1024^k), kept as the exact quotient;
\* sec is the fraction num / den of seconds.
Sec(num, den) == [num |-> num, den |-> den]
convert(sec, dataSize, u) == [bytes |-> dataSize, sec |-> sec, unit |-> u]

\* the three lines printed for one direction (lines 373-375 and 380-382)
DirectionReportSwapped(acc, r, dataSize, u) ==
    [avg |-> convert(Sec(acc.sum, r), dataSize, u),
     min |-> convert(Sec(acc.min, 1), dataSize, u),
     max |-> convert(Sec(acc.max, 1), dataSize, u)]
DirectionReport(acc, r, dataSize, u) ==
    [avg |-> convert(Sec(acc.sum, r), dataSize, u),
     min |-> convert(Sec(acc.max, 1), dataSize, u),
     max |-> convert(Sec(acc.min, 1), dataSize, u)]

-----------------------------------------------------------------------------
(* main (lines 217-401) *)

ParseIdle ==
    /\ pstate = "idle" /\ ss = <<>> /\ result = <<>> /\ lastItem = <<>> /\ lastOut = <<>>
FilterIdle ==
    /\ fstate = "idle" /\ fprior = <<>> /\ fsizes = <<>> /\ fmem = W(0)

Init ==
    /\ bits \in {32, 64}
    /\ rounds = DefaultRounds
    /\ targetDevice = 0
    /\ direction = "Both"
    /\ unit = "GBps"
    /\ userSpecifiedSizes = FALSE
    /\ sizes = DefaultSizes(bits)
    /\ numPlatforms = NotYet
    /\ numDevices = NotYet
    /\ device = <<>>
    /\ gpuMemSize = W(0)
    /\ context = "none"
    /\ queue = "none"
    /\ live = {}
    /\ mapped = {}
    /\ pc = "args"
    /\ exitCode = Running
    /\ sizeIdx = 1
    /\ i = 0
    /\ accH2D = AccInit
    /\ accD2H = AccInit
    /\ nWrite = 0
    /\ nRead = 0
    /\ repH2D = NoReport
    /\ repD2H = NoReport
    /\ nReports = 0
    /\ xferFailed = FALSE
    /\ xferLog = 0
    /\ nAllocs = 0
    /\ ParseIdle
    /\ FilterIdle

\* "return code" from main: nothing is released on the way out
Return(code) ==
    /\ pc' = "done"
    /\ exitCode' = code

\* CHECK(status, msg) (lines 31-37) inside main
CheckFails(status) == status # "CL_SUCCESS"

\* lines 238-262, stopped by --help, --version (0) or an unknown argument (1)
ArgsStop ==
    /\ pc = "args"
    /\ \E code \in {0, 1} : Return(code)
    /\ UNCHANGED <<bits, rounds, targetDevice, direction, unit, userSpecifiedSizes, sizes,
                   numPlatforms, numDevices, device, gpuMemSize, context, queue, live,
                   mapped, sizeIdx, i, accH2D, accD2H, nWrite, nRead, repH2D, repD2H,
                   nReports, xferFailed, xferLog, nAllocs, parseVars, filterVars>>

\* lines 238-262: --rounds, --device, --direction and --unit are given, --sizes
\* is given or not
ParseArgs ==
    /\ pc = "args"
    /\ \E r \in RoundsArgs, d \in DeviceArgs, dir \in Directions, u \in Units :
          /\ rounds' = r
          /\ targetDevice' = d
          /\ direction' = dir
          /\ unit' = u
    /\ \/ UNCHANGED <<sizes, userSpecifiedSizes>>
       \/ \E str \in SizesArgs :
             /\ sizes' = parse_sizes(str, bits)
             /\ userSpecifiedSizes' = TRUE
    /\ pc' = "platforms"
    /\ UNCHANGED <<bits, numPlatforms, numDevices, device, gpuMemSize, context, queue, live,
                   mapped, exitCode, sizeIdx, i, accH2D, accD2H, nWrite, nRead, repH2D,
                   repD2H, nReports, xferFailed, xferLog, nAllocs,
                   parseVars, filterVars>>

\* lines 267-277
GetPlatforms ==
    /\ pc = "platforms"
    /\ \E st1 \in Status, n \in 0..1, st2 \in Status :
          IF CheckFails(st1) THEN Return(1) /\ numPlatforms' = 0
          ELSE /\ numPlatforms' = n
               /\ IF n = 0 \/ CheckFails(st2) THEN Return(1)
                  ELSE pc' = "devices" /\ UNCHANGED exitCode
    /\ UNCHANGED <<bits, rounds, targetDevice, direction, unit, userSpecifiedSizes, sizes,
                   numDevices, device, gpuMemSize, context, queue, live, mapped, sizeIdx, i,
                   accH2D, accD2H, nWrite, nRead, repH2D, repD2H, nReports, xferFailed,
                   xferLog, nAllocs, parseVars, filterVars>>

\* lines 278-292
GetDevices ==
    /\ pc = "devices"
    /\ \E st1 \in Status, n \in DeviceCounts, st2 \in Status :
          IF CheckFails(st1) THEN Return(1) /\ numDevices' = 0 /\ UNCHANGED device
          ELSE /\ numDevices' = n
               /\ IF n = 0 \/ CheckFails(st2) \/ IndexBeyond(targetDevice, n)
                  THEN Return(1) /\ UNCHANGED device
                  ELSE /\ device' = <<targetDevice>>
                       /\ pc' = "devinfo"
                       /\ UNCHANGED exitCode
    /\ UNCHANGED <<bits, rounds, targetDevice, direction, unit, userSpecifiedSizes, sizes,
                   numPlatforms, gpuMemSize, context, queue, live, mapped, sizeIdx, i,
                   accH2D, accD2H, nWrite, nRead, repH2D, repD2H, nReports, xferFailed,
                   xferLog, nAllocs, parseVars, filterVars>>

\* lines 294-303
GetDeviceInfo ==
    /\ pc = "devinfo"
    /\ \E st \in Status, mem \in MainMemTotals :
          IF CheckFails(st) THEN Return(1) /\ UNCHANGED gpuMemSize
          ELSE /\ gpuMemSize' = mem
               /\ pc' = "filter"
               /\ UNCHANGED exitCode
    /\ UNCHANGED <<bits, rounds, targetDevice, direction, unit, userSpecifiedSizes, sizes,
                   numPlatforms, numDevices, device, context, queue, live, mapped, sizeIdx,
                   i, accH2D, accD2H, nWrite, nRead, repH2D, repD2H, nReports, xferFailed,
                   xferLog, nAllocs, parseVars, filterVars>>

\* lines 305-312
FilterSizes ==
    /\ pc = "filter"
    /\ sizes' = IF ~userSpecifiedSizes
                THEN filter_static_sizes_by_gpu_memory(sizes, SizeT(gpuMemSize, bits), bits)
                ELSE sizes
    /\ IF CatalogEmpty(sizes') THEN Return(1)
       ELSE pc' = "context" /\ UNCHANGED exitCode
    /\ UNCHANGED <<bits, rounds, targetDevice, direction, unit, userSpecifiedSizes,
                   numPlatforms, numDevices, device, gpuMemSize, context, queue, live,
                   mapped, sizeIdx, i, accH2D, accD2H, nWrite, nRead, repH2D, repD2H,
                   nReports, xferFailed, xferLog, nAllocs, parseVars, filterVars>>

\* lines 314-315
CreateContext ==
    /\ pc = "context"
    /\ \E st \in Status :
          IF CheckFails(st) THEN Return(1) /\ UNCHANGED context
          ELSE context' = "live" /\ pc' = "queue" /\ UNCHANGED exitCode
    /\ UNCHANGED <<bits, rounds, targetDevice, direction, unit, userSpecifiedSizes, sizes,
                   numPlatforms, numDevices, device, gpuMemSize, queue, live, mapped,
                   sizeIdx, i, accH2D, accD2H, nWrite, nRead, repH2D, repD2H, nReports,
                   xferFailed, xferLog, nAllocs, parseVars, filterVars>>

\* lines 317-320
CreateQueue ==
    /\ pc = "queue"
    /\ \E st \in Status :
          IF CheckFails(st) THEN Return(1) /\ UNCHANGED queue
          ELSE queue' = "live" /\ pc' = "size" /\ UNCHANGED exitCode
    /\ UNCHANGED <<bits, rounds, targetDevice, direction, unit, userSpecifiedSizes, sizes,
                   numPlatforms, numDevices, device, gpuMemSize, context, live, mapped,
                   sizeIdx, i, accH2D, accD2H, nWrite, nRead, repH2D, repD2H, nReports,
                   xferFailed, xferLog, nAllocs, parseVars, filterVars>>

\* what the per-size part of main never writes
setup == <<bits, rounds, targetDevice, direction, unit, userSpecifiedSizes, sizes,
           numPlatforms, numDevices, device, gpuMemSize, context, queue,
           parseVars, filterVars>>
dataSize == sizes[sizeIdx]

\* clCreateBuffer refuses a size of 0 (CL_INVALID_BUFFER_SIZE); any call may fail
CreateBufferStatus(size) == IF size = W(0) THEN {"CL_ERROR"} ELSE Status

\* lines 322-326: the loop takes the next size and allocates the pinned source buffer
AllocHostBuf ==
    /\ pc = "size"
    /\ sizeIdx <= Len(sizes)
    /\ nAllocs' = nAllocs + 1
    /\ \E st \in CreateBufferStatus(dataSize) :
          IF CheckFails(st) THEN Return(1) /\ UNCHANGED live
          ELSE /\ live' = live \cup {<<"hostBuf", sizeIdx>>}
               /\ pc' = "recvBuf"
               /\ UNCHANGED exitCode
    /\ UNCHANGED <<setup, mapped, sizeIdx, i, accH2D, accD2H, nWrite, nRead, repH2D, repD2H,
                   nReports, xferFailed, xferLog>>

\* lines 328-329
AllocRecvBuf ==
    /\ pc = "recvBuf"
    /\ nAllocs' = nAllocs + 1
    /\ \E st \in CreateBufferStatus(dataSize) :
          IF CheckFails(st) THEN Return(1) /\ UNCHANGED live
          ELSE /\ live' = live \cup {<<"recvBuf", sizeIdx>>}
               /\ pc' = "mapHost"
               /\ UNCHANGED exitCode
    /\ UNCHANGED <<setup, mapped, sizeIdx, i, accH2D, accD2H, nWrite, nRead, repH2D, repD2H,
                   nReports, xferFailed, xferLog>>

\* lines 331-332
MapHostBuf ==
    /\ pc = "mapHost"
    /\ \E st \in Status :
          IF CheckFails(st) THEN Return(1) /\ UNCHANGED mapped
          ELSE /\ mapped' = mapped \cup {"hostBuf"}
               /\ pc' = "mapRecv"
               /\ UNCHANGED exitCode
    /\ UNCHANGED <<setup, live, sizeIdx, i, accH2D, accD2H, nWrite, nRead, repH2D, repD2H,
                   nReports, xferFailed, xferLog, nAllocs>>

\* lines 334-335
MapRecvBuf ==
    /\ pc = "mapRecv"
    /\ \E st \in Status :
          IF CheckFails(st) THEN Return(1) /\ UNCHANGED mapped
          ELSE /\ mapped' = mapped \cup {"recvBuf"}
               /\ pc' = "deviceBuf"
               /\ UNCHANGED exitCode
    /\ UNCHANGED <<setup, live, sizeIdx, i, accH2D, accD2H, nWrite, nRead, repH2D, repD2H,
                   nReports, xferFailed, xferLog, nAllocs>>

\* lines 337-345: memset, the device buffer, the accumulators and "int i = 0"
AllocDeviceBuf ==
    /\ pc = "deviceBuf"
    /\ nAllocs' = nAllocs + 1
    /\ \E st \in CreateBufferStatus(dataSize) :
          IF CheckFails(st)
          THEN Return(1) /\ UNCHANGED <<live, i, accH2D, accD2H>>
          ELSE /\ live' = live \cup {<<"deviceBuffer", sizeIdx>>}
               /\ accH2D' = AccInit
               /\ accD2H' = AccInit
               /\ i' = 0
               /\ pc' = "round"
               /\ UNCHANGED exitCode
    /\ UNCHANGED <<setup, mapped, sizeIdx, nWrite, nRead, repH2D, repD2H, nReports,
                   xferFailed, xferLog>>

\* lines 345-353: a round's write sample
RoundWrite ==
    /\ pc = "round"
    /\ RoundCond(i, rounds)
    /\ WritesActive(direction)
    /\ \E st \in Status, elapsed \in ElapsedTimes :
          /\ accH2D' = Accumulate(accH2D, measure(st, elapsed))
          /\ xferFailed' = (xferFailed \/ st # "CL_SUCCESS")
    /\ xferLog' = xferLog + 1
    /\ nWrite' = nWrite + 1
    /\ IF ReadsActive(direction)
       THEN pc' = "read" /\ UNCHANGED i
       ELSE pc' = "round" /\ i' = i + 1
    /\ UNCHANGED <<setup, live, mapped, exitCode, sizeIdx, accD2H, nRead, repH2D, repD2H,
                   nReports, nAllocs>>

\* lines 355-361: a round's read sample and "++i"
RoundRead ==
    /\ \/ pc = "read"
       \/ pc = "round" /\ RoundCond(i, rounds) /\ ~WritesActive(direction)
    /\ ReadsActive(direction)
    /\ \E st \in Status, elapsed \in ElapsedTimes :
          /\ accD2H' = Accumulate(accD2H, measure(st, elapsed))
          /\ xferFailed' = (xferFailed \/ st # "CL_SUCCESS")
    /\ xferLog' = xferLog + 1
    /\ nRead' = nRead + 1
    /\ pc' = "round"
    /\ i' = i + 1
    /\ UNCHANGED <<setup, live, mapped, exitCode, sizeIdx, accH2D, nWrite, repH2D, repD2H,
                   nReports, nAllocs>>

\* lines 345, 363-369: the round loop ends
RoundsDone ==
    /\ pc = "round"
    /\ ~RoundCond(i, rounds)
    /\ pc' = "reportH2D"
    /\ UNCHANGED <<setup, live, mapped, exitCode, sizeIdx, i, accH2D, accD2H, nWrite, nRead,
                   repH2D, repD2H, nReports, xferFailed, xferLog, nAllocs>>

\* lines 371-376
ReportH2D ==
    /\ pc = "reportH2D"
    /\ IF WritesActive(direction)
       THEN /\ repH2D' = <<DirectionReport(accH2D, rounds, dataSize, unit)>>
            /\ nReports' = nReports + 1
       ELSE UNCHANGED <<repH2D, nReports>>
    /\ pc' = "reportD2H"
    /\ UNCHANGED <<setup, live, mapped, exitCode, sizeIdx, i, accH2D, accD2H, nWrite, nRead,
                   repD2H, xferFailed, xferLog, nAllocs>>

\* lines 378-383
ReportD2H ==
    /\ pc = "reportD2H"
    /\ IF ReadsActive(direction)
       THEN /\ repD2H' = <<DirectionReport(accD2H, rounds, dataSize, unit)>>
            /\ nReports' = nReports + 1
       ELSE UNCHANGED <<repD2H, nReports>>
    /\ pc' = "unmapHost"
    /\ UNCHANGED <<setup, live, mapped, exitCode, sizeIdx, i, accH2D, accD2H, nWrite, nRead,
                   repH2D, xferFailed, xferLog, nAllocs>>

\* line 385 (the status of clEnqueueUnmapMemObject is not looked at)
UnmapHostBuf ==
    /\ pc = "unmapHost"
    /\ mapped' = mapped \ {"hostBuf"}
    /\ pc' = "unmapRecv"
    /\ UNCHANGED <<setup, live, exitCode, sizeIdx, i, accH2D, accD2H, nWrite, nRead, repH2D,
                   repD2H, nReports, xferFailed, xferLog, nAllocs>>

\* line 386
UnmapRecvBuf ==
    /\ pc = "unmapRecv"
    /\ mapped' = mapped \ {"recvBuf"}
    /\ pc' = "relHost"
    /\ UNCHANGED <<setup, live, exitCode, sizeIdx, i, accH2D, accD2H, nWrite, nRead, repH2D,
                   repD2H, nReports, xferFailed, xferLog, nAllocs>>

\* line 388
ReleaseHostBuf ==
    /\ pc = "relHost"
    /\ live' = live \ {<<"hostBuf", sizeIdx>>}
    /\ pc' = "relRecv"
    /\ UNCHANGED <<setup, mapped, exitCode, sizeIdx, i, accH2D, accD2H, nWrite, nRead,
                   repH2D, repD2H, nReports, xferFailed, xferLog, nAllocs>>

\* line 389
ReleaseRecvBuf ==
    /\ pc = "relRecv"
    /\ live' = live \ {<<"recvBuf", sizeIdx>>}
    /\ pc' = "relDevice"
    /\ UNCHANGED <<setup, mapped, exitCode, sizeIdx, i, accH2D, accD2H, nWrite, nRead,
                   repH2D, repD2H, nReports, xferFailed, xferLog, nAllocs>>

\* lines 390-391: the device buffer is released and the iteration's locals end
DeviceBufferKept(l, k) == l
DeviceBufferReleased(l, k) == l \ {<<"deviceBuffer", k>>}
ReleaseDeviceBuf ==
    /\ pc = "relDevice"
    /\ live' = DeviceBufferReleased(live, sizeIdx)
    /\ sizeIdx' = sizeIdx + 1
    /\ i' = 0
    /\ accH2D' = AccInit
    /\ accD2H' = AccInit
    /\ nWrite' = 0
    /\ nRead' = 0
    /\ repH2D' = NoReport
    /\ repD2H' = NoReport
    /\ nReports' = 0
    /\ pc' = "size"
    /\ UNCHANGED <<setup, mapped, exitCode, xferFailed, xferLog, nAllocs>>

\* lines 322, 393-398: the size loop ends and the queue is released
ReleaseQueue ==
    /\ pc = "size"
    /\ sizeIdx > Len(sizes)
    /\ queue' = "released"
    /\ pc' = "relContext"
    /\ UNCHANGED <<bits, rounds, targetDevice, direction, unit, userSpecifiedSizes, sizes,
                   numPlatforms, numDevices, device, gpuMemSize, context, live, mapped,
                   exitCode, sizeIdx, i, accH2D, accD2H, nWrite, nRead, repH2D, repD2H,
                   nReports, xferFailed, xferLog, nAllocs, parseVars, filterVars>>

\* lines 399-400
ReleaseContext ==
    /\ pc = "relContext"
    /\ context' = "released"
    /\ Return(0)
    /\ UNCHANGED <<bits, rounds, targetDevice, direction, unit, userSpecifiedSizes, sizes,
                   numPlatforms, numDevices, device, gpuMemSize, queue, live, mapped,
                   sizeIdx, i, accH2D, accD2H, nWrite, nRead, repH2D, repD2H, nReports,
                   xferFailed, xferLog, nAllocs, parseVars, filterVars>>

Next ==
    \/ ArgsStop
    \/ ParseArgs
    \/ GetPlatforms
    \/ GetDevices
    \/ GetDeviceInfo
    \/ FilterSizes
    \/ CreateContext
    \/ CreateQueue
    \/ AllocHostBuf
    \/ AllocRecvBuf
    \/ MapHostBuf
    \/ MapRecvBuf
    \/ AllocDeviceBuf
    \/ RoundWrite
    \/ RoundRead
    \/ RoundsDone
    \/ ReportH2D
    \/ ReportD2H
    \/ UnmapHostBuf
    \/ UnmapRecvBuf
    \/ ReleaseHostBuf
    \/ ReleaseRecvBuf
    \/ ReleaseDeviceBuf
    \/ ReleaseQueue
    \/ ReleaseContext

Spec == Init /\ [][Next]_vars

-----------------------------------------------------------------------------
(* parse_sizes on its own: every string over ParseAlphabet, one item per step *)

ParseAlphabet == {"1", "4", "K", "m", "G", "x", ","}
RECURSIVE StringsOfLen(_)
StringsOfLen(n) ==
    IF n = 0 THEN {<<>>}
    ELSE {Append(s, c) : s \in StringsOfLen(n - 1), c \in ParseAlphabet}
ParseInputs == UNION {StringsOfLen(n) : n \in 0..MaxStrLen}

MainIdle ==
    /\ rounds = DefaultRounds /\ targetDevice = 0 /\ direction = "Both" /\ unit = "GBps"
    /\ userSpecifiedSizes = FALSE /\ sizes = <<>>
    /\ numPlatforms = NotYet /\ numDevices = NotYet /\ device = <<>> /\ gpuMemSize = W(0)
    /\ context = "none" /\ queue = "none" /\ live = {}
    /\ mapped = {} /\ pc = "idle" /\ exitCode = Running /\ sizeIdx = 1 /\ i = 0
    /\ accH2D = AccInit /\ accD2H = AccInit /\ nWrite = 0 /\ nRead = 0
    /\ repH2D = NoReport /\ repD2H = NoReport /\ nReports = 0
    /\ xferFailed = FALSE /\ xferLog = 0 /\ nAllocs = 0

InitParse ==
    /\ bits \in {32, 64}
    /\ pstate = "parsing"
    /\ ss \in ParseInputs
    /\ result = <<>>
    /\ lastItem = <<>>
    /\ lastOut = <<>>
    /\ MainIdle
    /\ FilterIdle

\* lines 121-143: getline succeeds and the item is converted or reported
ParseNextItem ==
    /\ pstate = "parsing"
    /\ ss # <<>>
    /\ lastItem' = <<GetlineItem(ss)>>
    /\ lastOut' = ParseItem(GetlineItem(ss), bits)
    /\ result' = result \o ParseItem(GetlineItem(ss), bits)
    /\ ss' = GetlineRest(ss)
    /\ UNCHANGED <<bits, pstate, mainVars, filterVars>>

\* lines 121, 144: getline finds the end of the stream; return result
ParseReturn ==
    /\ pstate = "parsing"
    /\ ss = <<>>
    /\ pstate' = "returned"
    /\ UNCHANGED <<bits, ss, result, lastItem, lastOut, mainVars, filterVars>>

NextParse == ParseNextItem \/ ParseReturn
SpecParse == InitParse /\ [][NextParse]_vars

-----------------------------------------------------------------------------
(* the filter on its own: arbitrary prior catalogs and memory totals *)

PriorPool == {WScale(KiB, 512), MiB, GiB, W(7)}
RECURSIVE PriorsOfLen(_)
PriorsOfLen(n) ==
    IF n = 0 THEN {<<>>}
    ELSE {Append(s, x) : s \in PriorsOfLen(n - 1), x \in PriorPool}
PriorCatalogs(b) == {DefaultSizes(b)} \cup UNION {PriorsOfLen(n) : n \in 0..MaxPrior}

InitFilter ==
    /\ bits \in {32, 64}
    /\ fstate = "call"
    /\ fprior \in PriorCatalogs(bits)
    /\ fsizes = fprior
    /\ fmem \in MemTotals
    /\ MainIdle
    /\ ParseIdle

\* line 306: filter_static_sizes_by_gpu_memory(sizes, static_cast<size_t>(gpuMemSize))
FilterCall ==
    /\ fstate = "call"
    /\ fsizes' = filter_static_sizes_by_gpu_memory(fsizes, SizeT(fmem, bits), bits)
    /\ fstate' = "returned"
    /\ UNCHANGED <<bits, fprior, fmem, mainVars, parseVars>>

NextFilter == FilterCall
SpecFilter == InitFilter /\ [][NextFilter]_vars

-----------------------------------------------------------------------------
(* Vocabulary of the properties *)

\* main has passed the point where the catalog is final
CatalogFinal == pc \notin {"idle", "args", "platforms", "devices", "devinfo", "filter"}
NothingAcquired ==
    /\ context = "none" /\ queue = "none"
    /\ live = {} /\ mapped = {}
    /\ nAllocs = 0 /\ xferLog = 0
EndedWith(code) == pc = "done" /\ exitCode = code
\* main is inside "for (size_t dataSize : sizes)" (lines 322-391)
InSizeLoop == pc \in {"size", "recvBuf", "mapHost", "mapRecv", "deviceBuf", "round", "read",
                      "reportH2D", "reportD2H", "unmapHost", "unmapRecv", "relHost",
                      "relRecv", "relDevice"}

StrictlyAscending(s) == \A k \in 1..(Len(s) - 1) : WLess(s[k], s[k + 1])

\* order of two printed throughputs of one size and unit.  bytes / sec falls as
\* sec grows; 0 / 0 (no bytes in no time, or an average over no round) is NaN,
\* which compares false with everything.
SecIsNaN(sec) == sec.den = 0 /\ sec.num = W(0)
SecIsZero(sec) == sec.den # 0 /\ sec.num = W(0)
SecLeq(a, b) == WLeq(WScale(a.num, b.den), WScale(b.num, a.den))
ThroughputIsNaN(x) == SecIsNaN(x.sec) \/ (x.bytes = W(0) /\ SecIsZero(x.sec))
ThroughputLeq(x, y) ==
    /\ x.bytes = y.bytes /\ x.unit = y.unit
    /\ ~ThroughputIsNaN(x) /\ ~ThroughputIsNaN(y)
    /\ (x.bytes = W(0) \/ SecLeq(y.sec, x.sec))

ActiveDirections(dir) == IF dir = "Both" THEN 2 ELSE 1
InRoundLoop == pc \in {"round", "read"}
AfterRounds == pc \in {"reportH2D", "reportD2H", "unmapHost", "unmapRecv",
                       "relHost", "relRecv", "relDevice"}
AfterReports == pc \in {"unmapHost", "unmapRecv", "relHost", "relRecv", "relDevice"}

\* what the claim about parse_sizes calls a well-formed token: one or more
\* decimal digits, then at most one of K, M, G in either case
TokenDigits(item) == NumberPart(item)
WellFormed(item) ==
    /\ TokenDigits(item) # <<>>
    /\ \A k \in 1..Len(TokenDigits(item)) : TokenDigits(item)[k] \in DigitChars
ExactValue(item) == WTimesPow1024(W(Decimal(TokenDigits(item))), SuffixExp(item))

-----------------------------------------------------------------------------
(* The claims *)

\* C1: a transfer that returns a non-success status ends the run at once with
\* exit code 1, and nothing is reported for the size in flight.
C1_TransferFailureIsFatal ==
    xferFailed => EndedWith(1) /\ nReports = 0

\* C2: after the filter a standard size S is in the catalog iff S <= M / 4, for
\* every memory total M and whatever the catalog held before; with M = 2 GiB
\* and the default catalog the result is exactly 512 KiB ... 512 MiB.
C2_StandardSizeKeptIffFits ==
    fstate = "returned" =>
       /\ \A S \in Range(staticSizes(bits)) :
             S \in Range(fsizes) <=> WLeq(S, WDiv4(fmem))
       /\ (fmem = WScale(GiB, 2) /\ fprior = DefaultSizes(bits)) => fsizes = BaseSizes

\* C2 restricted to builds whose size_t is as wide as cl_ulong (not a claim of
\* its own: it locates the failure of C2 in the 32-bit conversion of line 306)
C2_HoldsWhenSizeTIs64Bit ==
    (fstate = "returned" /\ bits = 64) =>
       /\ \A S \in Range(staticSizes(bits)) :
             S \in Range(fsizes) <=> WLeq(S, WDiv4(fmem))
       /\ (fmem = WScale(GiB, 2) /\ fprior = DefaultSizes(bits)) => fsizes = BaseSizes

\* C3: a token made of decimal digits and at most one K/M/G suffix yields
\* exactly N * 1024^k; every other token yields no entry; the tokens after a
\* malformed one are still parsed.
C3_TokenYieldsExactValueOrNothing ==
    /\ lastItem # <<>> =>
          IF WellFormed(lastItem[1])
          THEN lastOut = <<ExactValue(lastItem[1])>>
          ELSE lastOut = <<>>
    /\ pstate = "returned" => ss = <<>>

\* C4 as claimed: the list the benchmark loop iterates over is ascending and
\* free of duplicates, whether filtered from the default or given with --sizes.
C4_FinalListAscendingUnique ==
    InSizeLoop => StrictlyAscending(sizes)

\* C4 as amended: the default list filtered by accelerator memory is ascending
\* and free of duplicates; a list given with --sizes is the parsed list as it
\* stands, in the order given.
C4_DefaultListAscendingUnique ==
    InSizeLoop =>
       /\ ~userSpecifiedSizes => StrictlyAscending(sizes)
       /\ userSpecifiedSizes => \E str \in SizesArgs : sizes = parse_sizes(str, bits)
C4_Witness ==
    /\ pc = "round" /\ ~userSpecifiedSizes /\ Len(sizes) >= 2 /\ sizeIdx = 2

\* C5: an empty catalog after filtering ends the run with exit code 1 and no
\* context, queue, buffer or transfer.
C5_EmptyCatalogStopsBeforeAnyTransfer ==
    (CatalogFinal /\ sizes = <<>>) => EndedWith(1) /\ NothingAcquired
C5_Witness ==
    /\ EndedWith(1) /\ sizes = <<>> /\ ~userSpecifiedSizes
    /\ gpuMemSize = MiB /\ device # <<>>

\* C6: when no transfer fails, a size's round loop takes exactly round_count
\* samples per requested direction and none for the other one, a round's write
\* comes before its read, and each active direction is reported once, after
\* the last round.
C6_RoundCountSamplesPerDirection ==
    ~xferFailed =>
       /\ AfterRounds =>
             /\ nWrite = (IF WritesActive(direction) THEN rounds ELSE 0)
             /\ nRead = (IF ReadsActive(direction) THEN rounds ELSE 0)
       /\ pc = "read" => direction = "Both" /\ nWrite = nRead + 1
       /\ pc = "round" => (direction = "Both" => nWrite = nRead) /\ nWrite <= i /\ nRead <= i
       /\ InRoundLoop => nReports = 0 /\ repH2D = NoReport /\ repD2H = NoReport
       /\ repH2D # NoReport => WritesActive(direction) /\ nWrite = rounds /\ AfterRounds
       /\ repD2H # NoReport => ReadsActive(direction) /\ nRead = rounds /\ AfterRounds
       /\ AfterReports =>
             /\ nReports = ActiveDirections(direction)
             /\ (repH2D # NoReport) <=> WritesActive(direction)
             /\ (repD2H # NoReport) <=> ReadsActive(direction)
C6_Witness ==
    /\ pc = "unmapHost" /\ direction = "HostToDevice" /\ rounds >= 2
    /\ nWrite = rounds /\ nRead = 0 /\ repH2D # NoReport /\ repD2H = NoReport
    /\ ~xferFailed

\* C7: every report over at least one sample has Min <= Avg <= Max throughput.
ReportOrdered(rep) ==
    rep # NoReport =>
       /\ ThroughputLeq(rep[1].min, rep[1].avg)
       /\ ThroughputLeq(rep[1].avg, rep[1].max)
C8_DeviceBoundOnlyInRange ==
    /\ device # <<>> =>
          /\ device[1] = targetDevice
          /\ 0 <= device[1] /\ device[1] < numDevices
    /\ (\/ numPlatforms = 0
        \/ numDevices = 0
        \/ (numDevices # NotYet /\ targetDevice >= numDevices))
          => EndedWith(1) /\ NothingAcquired /\ device = <<>>
C8_Witness ==
    /\ EndedWith(1) /\ targetDevice < 0 /\ numDevices >= 1 /\ device = <<>>
    /\ NothingAcquired

\* C9: buffers belong to one size iteration: allocated at its start, unmapped
\* before any is released, all released before the next size allocates, never
\* more than three live; the context and the queue live from before the first
\* size until after the last.
C9_BuffersScopedToOneSize ==
    /\ Cardinality(live) <= 3
    /\ \A h \in live : h[2] = sizeIdx
    /\ \A n \in mapped : <<n, sizeIdx>> \in live
    /\ pc = "size" => live = {} /\ mapped = {}
    /\ pc = "recvBuf" => live = {<<"hostBuf", sizeIdx>>}
    /\ (InRoundLoop \/ pc \in {"reportH2D", "reportD2H", "unmapHost"}) =>
          /\ live = {<<n, sizeIdx>> : n \in BufferNames}
          /\ mapped = {"hostBuf", "recvBuf"}
    /\ pc \in {"relHost", "relRecv", "relDevice"} => mapped = {}
    /\ (live # {} \/ mapped # {}) => context = "live" /\ queue = "live"
    /\ InSizeLoop => context = "live" /\ queue = "live"
    /\ (context = "released" \/ queue = "released") =>
          sizeIdx = Len(sizes) + 1 /\ live = {} /\ mapped = {}
C9_Witness ==
    /\ pc = "round" /\ sizeIdx = 2 /\ ~xferFailed
    /\ live = {<<n, 2>> : n \in BufferNames}

\* C10: whenever the process ends, every context, queue, buffer and mapping it
\* acquired has been released.
C10_EverythingReleasedAtExit ==
    pc = "done" =>
       /\ context # "live" /\ queue # "live"
       /\ live = {} /\ mapped = {}

====
